---- MODULE Spec2Model ----
(***************************************************************************)
(* SerialSfnConstruct: the constructor and the recursive builder           *)
(* chainTasks/addChoice that turn a list of task and choice descriptors    *)
(* into a Step Functions chain.                                            *)
(*                                                                         *)
(* JavaScript arrays are objects shared by reference, so the descriptor    *)
(* lists live in a heap: props.lambdaFunctions is the array at address     *)
(* TopAddr and a choice's defaultFunctions is the object at the address    *)
(* the choice descriptor holds.  The recursion is run on an explicit call  *)
(* stack, one action per straight-line block of a function.               *)
(*                                                                         *)
(* The CDK classes are modelled by what the construct asks of them: `new`  *)
(* adds a construct to the scope, task.next(c) links task in front of c,   *)
(* choice.when adds a branch, choice.afterwards() is the chain that starts *)
(* at the choice.  A chain is the sequence of the ids of its states.       *)
(*                                                                         *)
(* Inputs: a list of at most MaxLen descriptors holding at most one choice *)
(* descriptor; construct ids are distinct, as the CDK requires of the ids  *)
(* of one scope.                                                           *)
(***************************************************************************)
EXTENDS Integers, Sequences, FiniteSets, TLC

MaxLen == 3
MaxChoices == 2
MaxBranchLen == 2

\* heap addresses: props.lambdaFunctions, and the defaultFunctions of the
\* choice descriptor at position i of props.lambdaFunctions
TopAddr == 0
BranchAddr(i) == i

NoValue == "undefined"
PayloadPath == "$.Payload"
ErrorResultPath == "$.error"

VARIABLES
  props,        \* the SerialSfnProps given to the constructor
  heap,         \* address -> array (or Pass state) as it is now
  heap0,        \* the heap as it was when the constructor was called
  pc,           \* position of the constructor
  stack,        \* call stack of chainTasks / addChoice frames, top last
  ret,          \* value returned by the call that returned last
  constructs,   \* construct id -> the construct created in this scope
  created,      \* ids of the constructs in creation order
  stateMachine, \* this.stateMachine
  log           \* the calls and returns of chainTasks / addChoice so far

vars == <<props, heap, heap0, pc, stack, ret, constructs, created, stateMachine, log>>

-----------------------------------------------------------------------------
(* Configuration descriptors *)

NoConfig == [present |-> FALSE]

RetryConfigs ==
  { [present |-> TRUE, retryInterval |-> 5, retryAttempts |-> 2,
     errors |-> <<"States.TaskFailed">>] }

ConfigOpts == {NoConfig} \cup RetryConfigs

\* ISfnObject
SfnObject(a, i, cfg) ==
  [kind |-> "task", name |-> <<"task", a, i>>, function |-> <<"fn", a, i>>,
   config |-> cfg]

\* one entry of ISfnChoice.choices; of `functions` the code only reads
\* whether it has the key 'endStates'
ChoiceObj(k, fns) == [condition |-> <<"condition", 0, k>>, functions |-> fns]

\* ISfnChoice
SfnChoice(a, i, fnsSeq, d) ==
  [kind |-> "choice", choiceName |-> <<"choice", a, i>>,
   choices |-> [k \in 1..Len(fnsSeq) |-> ChoiceObj(k, fnsSeq[k])],
   defaultFunctions |-> d]

ArrayObj(items) == [kind |-> "Array", items |-> items]
PassObj == [kind |-> "Pass", items |-> <<>>]

SeqsUpTo(S, n) == UNION { [1..m -> S] : m \in 0..n }

NoHandler == [present |-> FALSE]
ErrorHandler ==
  [present |-> TRUE, name |-> <<"errorHandler", 0, 0>>,
   function |-> <<"fn", 9, 9>>, errors |-> <<"States.ALL">>]

StateMachineName == <<"stateMachine", 0, 0>>

\* the descriptor list at TopAddr: choice descriptors at the positions cs,
\* with the entries fns[i], and task descriptors with the configs cfgs[i]
\* elsewhere
TopList(n, cs, cfgs, fns) ==
  [i \in 1..n |-> IF i \in cs THEN SfnChoice(TopAddr, i, fns[i], BranchAddr(i))
                              ELSE SfnObject(TopAddr, i, cfgs[i])]

\* what a defaultFunctions may be: a Pass state, or an array of task
\* descriptors with the configs b.cfgs
BranchObj(i, b) ==
  IF b.pass
    THEN PassObj
    ELSE ArrayObj([j \in 1..Len(b.cfgs) |-> SfnObject(BranchAddr(i), j, b.cfgs[j])])

BranchShapes ==
  {[pass |-> TRUE, cfgs |-> <<>>]} \cup
  {[pass |-> FALSE, cfgs |-> bs] : bs \in SeqsUpTo(ConfigOpts, MaxBranchLen)}

\* the positions of the choice descriptors: at most one per list
ChoicePositions(n) == {{}} \cup {{i} : i \in 1..n}

-----------------------------------------------------------------------------
Init ==
  /\ \E n \in 0..MaxLen, eh \in {NoHandler, ErrorHandler} :
       /\ props = [lambdaFunctions |-> TopAddr, errorHandler |-> eh,
                   stateMachineName |-> StateMachineName]
       /\ \E cs \in ChoicePositions(n), cfgs \in [1..n -> ConfigOpts] :
            /\ \A i \in cs : cfgs[i] = NoConfig
            /\ \E fns \in [cs -> SeqsUpTo({"endStates", "taskList"}, MaxChoices)],
                  bs \in [cs -> BranchShapes] :
                 heap = [a \in {TopAddr} \cup {BranchAddr(i) : i \in cs} |->
                           IF a = TopAddr
                             THEN ArrayObj(TopList(n, cs, cfgs, fns))
                             ELSE BranchObj(a, bs[a])]
  /\ heap0 = heap
  /\ pc = "start"
  /\ stack = <<>>
  /\ ret = <<>>
  /\ constructs = <<>>
  /\ created = <<>>
  /\ stateMachine = NoValue
  /\ log = <<>>

-----------------------------------------------------------------------------
(* Call stack and call log *)

Top == stack[Len(stack)]
Pop == SubSeq(stack, 1, Len(stack) - 1)
SetTop(f) == [stack EXCEPT ![Len(stack)] = f]

\* who is calling: the function of the frame on top, or the constructor
Caller == IF stack = <<>> THEN "constructor" ELSE Top.fn
CallerIdx == IF stack = <<>> THEN 0 ELSE Top.callIdx

\* log entry of a call of fn on the object at addr, made in heap h with the
\* constructs cr created so far
CallEntry(fn, addr, first, h, cr) ==
  [ev |-> "call", fn |-> fn, by |-> Caller, parent |-> CallerIdx,
   callIdx |-> Len(log) + 1, list |-> addr, obj |-> h[addr], first |-> first,
   chain |-> <<>>, created |-> cr]

\* log entry of the return of the frame f with value chain
ReturnEntry(f, addr, chain, h, cr) ==
  [ev |-> "return", fn |-> f.fn, by |-> log[f.callIdx].by,
   parent |-> log[f.callIdx].parent, callIdx |-> f.callIdx, list |-> addr,
   obj |-> h[addr], first |-> f.first, chain |-> chain, created |-> cr]

ChainTasksFrame(addr, first) ==
  [fn |-> "chainTasks", pc |-> "enter", lambdaFunctions |-> addr,
   first |-> first, task |-> <<>>, callIdx |-> Len(log) + 1]

AddChoiceFrame(choice, first) ==
  [fn |-> "addChoice", pc |-> "enter", choice |-> choice, first |-> first,
   res |-> choice.choiceName, i |-> 1, callIdx |-> Len(log) + 1]

-----------------------------------------------------------------------------
(* CDK constructs *)

ParallelId == <<"paralle", 0, 0>>
LogGroupId == <<"logGroup", 0, 0>>
LogGroupName(name) == <<"/aws/vendedlogs/states/", name>>

NewParallel == [type |-> "Parallel", branches |-> <<>>, catches |-> <<>>]

NewLambdaInvoke(fn, inputPath) ==
  [type |-> "LambdaInvoke", lambdaFunction |-> fn, inputPath |-> inputPath,
   retryOnServiceExceptions |-> FALSE, retries |-> <<>>]

NewChoice == [type |-> "Choice", whens |-> <<>>]

NewLogGroup(name) ==
  [type |-> "LogGroup", logGroupName |-> name, removalPolicy |-> "DESTROY"]

NewStateMachine(def, name, lg) ==
  [type |-> "StateMachine", definition |-> def, stateMachineName |-> name,
   logs |-> [destination |-> lg, level |-> "ALL"]]

\* task.addRetry(rule)
AddRetry(c, rule) == [c EXCEPT !.retries = Append(@, rule)]

\* choice.when(condition, next)
When(c, condition, next) ==
  [c EXCEPT !.whens = Append(@, [condition |-> condition, next |-> next])]

\* the target of a when-branch: a state object held at addr, or a chain
StateAt(addr) == [kind |-> "state", addr |-> addr, chain |-> <<>>]
ChainOf(chain) == [kind |-> "chain", addr |-> -1, chain |-> chain]

NextChain_Reversed(task, chain) == chain \o task

\* task.next(chain): the chain that runs task, then chain
NextChain(task, chain) == task \o chain

config_Swapped(cfg) ==
  [interval |-> cfg.retryAttempts, maxAttempts |-> cfg.retryInterval,
   errors |-> cfg.errors]

\* SerialSfnConstruct.config
config(cfg) ==
  [interval |-> cfg.retryInterval, maxAttempts |-> cfg.retryAttempts,
   errors |-> cfg.errors]

\* the inputPath chainTasks gives a LambdaInvoke
InputPath(first) == IF first THEN NoValue ELSE PayloadPath

-----------------------------------------------------------------------------
(* constructor *)

NoTasks_Never(p, h) == FALSE

\* line 31: !lambdaFunctions.length
NoTasks(p, h) == Len(h[p.lambdaFunctions].items) = 0

\* line 35: definition.branch(chain)
Branch(cs, chain) == [cs EXCEPT ![ParallelId].branches = Append(@, chain)]

\* the catch of lines 41-50
CatchOf(eh) ==
  [handler |-> eh.name, errors |-> eh.errors, resultPath |-> ErrorResultPath]

AddCatch_Chained(cs, eh) ==
  IF eh.present
    THEN (eh.name :> NewLambdaInvoke(eh.function, NoValue)) @@
         [cs EXCEPT ![ParallelId].catches = Append(@, CatchOf(eh)),
                    ![ParallelId].branches[1] = Append(@, eh.name)]
    ELSE cs

\* lines 40-51: with an errorHandler, a LambdaInvoke for it and the catch on
\* the Parallel
AddCatch(cs, eh) ==
  IF eh.present
    THEN (eh.name :> NewLambdaInvoke(eh.function, NoValue)) @@
         [cs EXCEPT ![ParallelId].catches = Append(@, CatchOf(eh))]
    ELSE cs

\* lines 22-37: the early return on an empty list, else the Parallel and the
\* call chainTasks(lambdaFunctions, firstFunction)
Constructor ==
  /\ pc = "start"
  /\ IF NoTasks(props, heap)
       THEN /\ pc' = "done"
            /\ UNCHANGED <<stack, constructs, created, log>>
       ELSE /\ constructs' = (ParallelId :> NewParallel) @@ constructs
            /\ created' = Append(created, ParallelId)
            /\ stack' = <<ChainTasksFrame(props.lambdaFunctions, TRUE)>>
            /\ log' = Append(log, CallEntry("chainTasks", props.lambdaFunctions,
                                            TRUE, heap, created'))
            /\ pc' = "chainTasks"
  /\ UNCHANGED <<props, heap, heap0, ret, stateMachine>>

\* lines 35-66, once chainTasks has returned: branch, catch, log group and
\* state machine
ConstructorFinish ==
  /\ pc = "chainTasks"
  /\ stack = <<>>
  /\ LET eh == props.errorHandler
         withCatch == AddCatch(Branch(constructs, ret), eh)
         sm == NewStateMachine(ParallelId, props.stateMachineName, LogGroupId)
     IN /\ constructs' =
             (props.stateMachineName :> sm) @@
             (LogGroupId :> NewLogGroup(LogGroupName(props.stateMachineName))) @@
             withCatch
        /\ created' = created \o (IF eh.present THEN <<eh.name>> ELSE <<>>)
                              \o <<LogGroupId, props.stateMachineName>>
        /\ stateMachine' = props.stateMachineName
  /\ pc' = "done"
  /\ UNCHANGED <<props, heap, heap0, stack, ret, log>>

-----------------------------------------------------------------------------
(* chainTasks *)

InChainTasks(p) ==
  /\ pc = "chainTasks"
  /\ stack # <<>>
  /\ Top.fn = "chainTasks"
  /\ Top.pc = p

Shift_Two(obj) ==
  [obj EXCEPT !.items = IF Len(@) > 1 THEN Tail(Tail(@)) ELSE Tail(@)]

\* lambdaFunctions.shift(): the array without its head
Shift(obj) == [obj EXCEPT !.items = Tail(@)]

\* the frame returns value: pop it, hand value to the caller, log the return
Return(value, h, cr) ==
  /\ stack' = Pop
  /\ ret' = value
  /\ log' = Append(log, ReturnEntry(Top, IF Top.fn = "chainTasks"
                                           THEN Top.lambdaFunctions
                                           ELSE Top.choice.defaultFunctions,
                                    value, h, cr))

\* lines 89, 96-97 on an empty array (shift() gives undefined and
\* sfnObject.name throws TypeError) or on an object that is no array
\* (shift is not a function): the exception leaves the constructor
ChainTasksThrow ==
  /\ InChainTasks("enter")
  /\ LET obj == heap[Top.lambdaFunctions]
     IN obj.kind # "Array" \/ obj.items = <<>>
  /\ pc' = "error"
  /\ stack' = <<>>
  /\ UNCHANGED <<props, heap, heap0, ret, constructs, created, stateMachine, log>>

\* lines 89, 95-105: shift a task descriptor and create its LambdaInvoke
ChainTasksLambda ==
  /\ InChainTasks("enter")
  /\ LET a == Top.lambdaFunctions
         obj == heap[a]
     IN /\ obj.kind = "Array" /\ obj.items # <<>>
        /\ LET sfnObject == Head(obj.items)
               task == NewLambdaInvoke(sfnObject.function, InputPath(Top.first))
           IN /\ sfnObject.kind = "task"
              /\ heap' = [heap EXCEPT ![a] = Shift(obj)]
              /\ constructs' =
                   (sfnObject.name :> IF sfnObject.config.present
                                        THEN AddRetry(task, config(sfnObject.config))
                                        ELSE task) @@ constructs
              /\ created' = Append(created, sfnObject.name)
              /\ stack' = SetTop([Top EXCEPT !.pc = "link", !.first = FALSE,
                                             !.task = <<sfnObject.name>>])
  /\ UNCHANGED <<props, heap0, pc, ret, stateMachine, log>>

\* lines 89-94: shift a choice descriptor and call addChoice(sfnObject, first)
ChainTasksChoice ==
  /\ InChainTasks("enter")
  /\ LET a == Top.lambdaFunctions
         obj == heap[a]
     IN /\ obj.kind = "Array" /\ obj.items # <<>>
        /\ LET sfnObject == Head(obj.items)
           IN /\ sfnObject.kind = "choice"
              /\ heap' = [heap EXCEPT ![a] = Shift(obj)]
              /\ stack' = Append(SetTop([Top EXCEPT !.pc = "choice"]),
                                 AddChoiceFrame(sfnObject, Top.first))
              /\ log' = Append(log, CallEntry("addChoice", sfnObject.defaultFunctions,
                                              Top.first, heap', created))
  /\ UNCHANGED <<props, heap0, pc, ret, constructs, created, stateMachine>>

\* the task of the frame on top: the LambdaInvoke, or what addChoice returned
TaskOf(f) == IF f.pc = "choice" THEN ret ELSE f.task

\* lines 107-108: the array is not empty, call chainTasks(lambdaFunctions, first)
ChainTasksRecurse ==
  /\ InChainTasks("link") \/ InChainTasks("choice")
  /\ Len(heap[Top.lambdaFunctions].items) # 0
  /\ stack' = Append(SetTop([Top EXCEPT !.pc = "next", !.task = TaskOf(Top)]),
                     ChainTasksFrame(Top.lambdaFunctions, Top.first))
  /\ log' = Append(log, CallEntry("chainTasks", Top.lambdaFunctions, Top.first,
                                  heap, created))
  /\ UNCHANGED <<props, heap, heap0, pc, ret, constructs, created, stateMachine>>

\* line 108, once the recursive call has returned: return task.next(...)
ChainTasksReturnNext ==
  /\ InChainTasks("next")
  /\ Return(NextChain(Top.task, ret), heap, created)
  /\ UNCHANGED <<props, heap, heap0, pc, constructs, created, stateMachine>>

\* lines 107, 109-110: the array is empty, return task
ChainTasksReturnTask ==
  /\ InChainTasks("link") \/ InChainTasks("choice")
  /\ Len(heap[Top.lambdaFunctions].items) = 0
  /\ Return(TaskOf(Top), heap, created)
  /\ UNCHANGED <<props, heap, heap0, pc, constructs, created, stateMachine>>

-----------------------------------------------------------------------------
(* addChoice *)

InAddChoice(p) ==
  /\ pc = "chainTasks"
  /\ stack # <<>>
  /\ Top.fn = "addChoice"
  /\ Top.pc = p

HasEndStates_Never(choiceObj) == FALSE

\* line 129: 'endStates' in choiceObj.functions
HasEndStates(choiceObj) == choiceObj.functions = "endStates"

\* res.afterwards(): the chain that starts at the Choice state
Afterwards(res) == <<res>>

\* lines 123-124: create the Choice; without choices return res.afterwards()
AddChoiceNew ==
  /\ InAddChoice("enter")
  /\ constructs' = (Top.res :> NewChoice) @@ constructs
  /\ created' = Append(created, Top.res)
  /\ IF Len(Top.choice.choices) = 0
       THEN Return(Afterwards(Top.res), heap, created')
       ELSE /\ stack' = SetTop([Top EXCEPT !.pc = "loop"])
            /\ UNCHANGED <<ret, log>>
  /\ UNCHANGED <<props, heap, heap0, pc, stateMachine>>

\* lines 126-130: an entry whose functions has 'endStates': the branch goes
\* to choice.defaultFunctions itself
AddChoiceEndStates ==
  /\ InAddChoice("loop")
  /\ Top.i <= Len(Top.choice.choices)
  /\ LET choiceObj == Top.choice.choices[Top.i]
     IN /\ HasEndStates(choiceObj)
        /\ constructs' = [constructs EXCEPT ![Top.res] =
             When(@, choiceObj.condition, StateAt(Top.choice.defaultFunctions))]
  /\ stack' = SetTop([Top EXCEPT !.i = @ + 1])
  /\ UNCHANGED <<props, heap, heap0, pc, ret, created, stateMachine, log>>

\* lines 126-134: any other entry: call
\* chainTasks(choice.defaultFunctions, first) for the branch
AddChoiceBranch ==
  /\ InAddChoice("loop")
  /\ Top.i <= Len(Top.choice.choices)
  /\ ~HasEndStates(Top.choice.choices[Top.i])
  /\ stack' = Append(SetTop([Top EXCEPT !.pc = "when"]),
                     ChainTasksFrame(Top.choice.defaultFunctions, Top.first))
  /\ log' = Append(log, CallEntry("chainTasks", Top.choice.defaultFunctions,
                                  Top.first, heap, created))
  /\ UNCHANGED <<props, heap, heap0, pc, ret, constructs, created, stateMachine>>

\* line 127, once chainTasks has returned: res.when(condition, chain)
AddChoiceWhen ==
  /\ InAddChoice("when")
  /\ constructs' = [constructs EXCEPT ![Top.res] =
       When(@, Top.choice.choices[Top.i].condition, ChainOf(ret))]
  /\ stack' = SetTop([Top EXCEPT !.pc = "loop", !.i = @ + 1])
  /\ UNCHANGED <<props, heap, heap0, pc, ret, created, stateMachine, log>>

\* line 138: the loop is over, return res.afterwards()
AddChoiceReturn ==
  /\ InAddChoice("loop")
  /\ Top.i > Len(Top.choice.choices)
  /\ Return(Afterwards(Top.res), heap, created)
  /\ UNCHANGED <<props, heap, heap0, pc, constructs, created, stateMachine>>

-----------------------------------------------------------------------------
Next ==
  \/ Constructor
  \/ ConstructorFinish
  \/ ChainTasksThrow
  \/ ChainTasksLambda
  \/ ChainTasksChoice
  \/ ChainTasksRecurse
  \/ ChainTasksReturnNext
  \/ ChainTasksReturnTask
  \/ AddChoiceNew
  \/ AddChoiceEndStates
  \/ AddChoiceBranch
  \/ AddChoiceWhen
  \/ AddChoiceReturn

Spec == Init /\ [][Next]_vars
-----------------------------------------------------------------------------
(* Reading the log and the configuration *)

IsCall(j, fn) == log[j].ev = "call" /\ log[j].fn = fn
IsReturn(j, fn) == log[j].ev = "return" /\ log[j].fn = fn

\* the array a chainTasks call was entered with
ArgOf(j) == log[log[j].callIdx].obj.items

\* the id of the state a descriptor is translated to
IdOf(d) == IF d.kind = "task" THEN d.name ELSE d.choiceName
Ids(items) == [k \in 1..Len(items) |-> IdOf(items[k])]

Occurrences(seq, x) == Cardinality({k \in 1..Len(seq) : seq[k] = x})

\* every task descriptor of the configuration as given
TaskDescriptors ==
  UNION { { heap0[a].items[k] :
              k \in {i \in 1..Len(heap0[a].items) : heap0[a].items[i].kind = "task"} } :
          a \in DOMAIN heap0 }

AllTasks(items) == \A k \in 1..Len(items) : items[k].kind = "task"

\* the choice descriptor an addChoice call (log index j) was given: the head
\* of the array its calling chainTasks was entered with
ChoiceOf(j) == Head(ArgOf(log[log[j].callIdx].parent))

NoTaskBranch(choice) ==
  \A k \in 1..Len(choice.choices) : choice.choices[k].functions = "endStates"

OnlyTaskBranches(choice) ==
  \A k \in 1..Len(choice.choices) : choice.choices[k].functions = "taskList"

\* the choice descriptors of props.lambdaFunctions as given
ChoiceDescriptors ==
  { heap0[TopAddr].items[k] :
      k \in {i \in 1..Len(heap0[TopAddr].items) : heap0[TopAddr].items[i].kind = "choice"} }

\* every choice has task branches only, and a non-empty array of tasks as
\* defaultFunctions
TaskBranchInput ==
  \A c \in ChoiceDescriptors :
    /\ Len(c.choices) >= 1
    /\ OnlyTaskBranches(c)
    /\ heap0[c.defaultFunctions].kind = "Array"
    /\ heap0[c.defaultFunctions].items # <<>>

\* the LambdaInvoke tasks made from descriptors, in creation order
DescriptorTasks ==
  SelectSeq(created, LAMBDA id : /\ constructs[id].type = "LambdaInvoke"
                                 /\ id[1] = "task")

-----------------------------------------------------------------------------
(* Claims *)

\* C1: translating a list of task descriptors only does not throw, and
\* every chainTasks call that returns, returns a chain with exactly one
\* state per descriptor of the array it was entered with, in the order of
\* the array; the state of a task descriptor is a LambdaInvoke for its
\* function, created exactly once.
C1_OrderPreserved ==
  /\ AllTasks(heap0[TopAddr].items) => pc # "error"
  /\ \A j \in 1..Len(log) :
       IsReturn(j, "chainTasks") =>
         /\ ArgOf(j) # <<>>
         /\ log[j].chain = Ids(ArgOf(j))
         /\ \A k \in 1..Len(ArgOf(j)) :
              ArgOf(j)[k].kind = "task" =>
                /\ ArgOf(j)[k].name \in DOMAIN constructs
                /\ constructs[ArgOf(j)[k].name].type = "LambdaInvoke"
                /\ constructs[ArgOf(j)[k].name].lambdaFunction = ArgOf(j)[k].function
                /\ Occurrences(created, ArgOf(j)[k].name) = 1

C1_Witness ==
  \E j \in 1..Len(log) :
    /\ IsReturn(j, "chainTasks")
    /\ Len(ArgOf(j)) >= 3
    /\ AllTasks(ArgOf(j))

\* C2: of the LambdaInvoke tasks made from the descriptor list, the first is
\* the only one without inputPath; every other one has inputPath $.Payload.
C2_OnlyFirstWithoutInputPath ==
  \A k \in 1..Len(DescriptorTasks) :
    constructs[DescriptorTasks[k]].inputPath =
      (IF k = 1 THEN NoValue ELSE PayloadPath)

\* C3: with task branches only (and a non-empty array of tasks to translate)
\* addChoice does not throw, and once it has returned its Choice state has
\* one when-branch per entry of choices, in order, each with the entry's
\* condition and a non-empty chain.
C3_TaskBranches ==
  TaskBranchInput =>
    /\ pc # "error"
    /\ \A j \in 1..Len(log) :
         IsReturn(j, "addChoice") =>
           LET choice == ChoiceOf(j)
               whens == constructs[choice.choiceName].whens
           IN /\ Len(whens) = Len(choice.choices)
              /\ \A k \in 1..Len(whens) :
                   /\ whens[k].condition = choice.choices[k].condition
                   /\ whens[k].next.kind = "chain"
                   /\ whens[k].next.chain # <<>>

\* C4: when the constructor has returned, props.lambdaFunctions and every
\* defaultFunctions hold what they held when it was called.
C4_ConfigurationUnchanged == pc = "done" => heap = heap0

\* the return of the chainTasks call the constructor made
TopReturn == CHOOSE j \in 1..Len(log) : IsReturn(j, "chainTasks") /\ log[j].callIdx = 1

\* every state of the workflow: those of the chain the constructor got and
\* those of the chains of the when-branches
ChainStates ==
  { log[TopReturn].chain[k] : k \in 1..Len(log[TopReturn].chain) } \cup
  UNION { UNION { { constructs[id].whens[w].next.chain[k] :
                      k \in 1..Len(constructs[id].whens[w].next.chain) } :
                  w \in 1..Len(constructs[id].whens) } :
          id \in {i \in DOMAIN constructs : constructs[i].type = "Choice"} }

\* C5: when the constructor has built a workflow, the definition of the
\* state machine is the Parallel, whose only branch is the chain chainTasks
\* returned; the Parallel has a catch (to a LambdaInvoke for
\* errorHandler.function, for errorHandler.errors, with result path $.error)
\* exactly if props.errorHandler is given, and the handler task is no state
\* of the chain.  Without errorHandler no handler task exists.
C5_WorkflowErrorHandler ==
  (pc = "done" /\ heap0[TopAddr].items # <<>>) =>
    LET eh == props.errorHandler
        p == constructs[ParallelId]
    IN /\ constructs[stateMachine].definition = ParallelId
       /\ p.type = "Parallel"
       /\ p.branches = <<log[TopReturn].chain>>
       /\ Len(log[TopReturn].chain) >= 1
       /\ eh.present <=> p.catches # <<>>
       /\ eh.present =>
            /\ p.catches = <<[handler |-> eh.name, errors |-> eh.errors,
                              resultPath |-> ErrorResultPath]>>
            /\ constructs[eh.name].type = "LambdaInvoke"
            /\ constructs[eh.name].lambdaFunction = eh.function
            /\ eh.name \notin ChainStates
       /\ ~eh.present =>
            \A id \in DOMAIN constructs :
              constructs[id].type = "LambdaInvoke" => id \in ChainStates

C5_Witness ==
  /\ pc = "done"
  /\ heap0[TopAddr].items # <<>>
  /\ props.errorHandler.present
  /\ Len(constructs[ParallelId].branches[1]) >= 2

\* C6: the LambdaInvoke of a task descriptor has one retry rule, with the
\* interval, maxAttempts and errors of the descriptor's config, if the
\* descriptor has a config, and no retry rule if it has none; every
\* LambdaInvoke has retryOnServiceExceptions false.
C6_RetryPolicy ==
  /\ \A d \in TaskDescriptors :
       d.name \in DOMAIN constructs =>
         constructs[d.name].retries =
           IF d.config.present
             THEN <<[interval |-> d.config.retryInterval,
                     maxAttempts |-> d.config.retryAttempts,
                     errors |-> d.config.errors]>>
             ELSE <<>>
  /\ \A id \in DOMAIN constructs :
       constructs[id].type = "LambdaInvoke" =>
         constructs[id].retryOnServiceExceptions = FALSE

C6_Witness ==
  /\ pc = "done"
  /\ \E d1, d2 \in TaskDescriptors :
       /\ d1.name \in DOMAIN constructs /\ d1.config.present
       /\ d2.name \in DOMAIN constructs /\ ~d2.config.present

LogGroups == {id \in DOMAIN constructs : constructs[id].type = "LogGroup"}

\* C7: with an empty props.lambdaFunctions the constructor returns having
\* created nothing and called nothing, stateMachine unset, errorHandler or
\* not; with a non-empty one, once it has returned, stateMachine is the
\* state machine and there is exactly one log group, named
\* /aws/vendedlogs/states/<stateMachineName>.
C7_EmptyListCreatesNothing ==
  /\ heap0[TopAddr].items = <<>> =>
       /\ pc \in {"start", "done"}
       /\ constructs = <<>>
       /\ created = <<>>
       /\ log = <<>>
       /\ stateMachine = NoValue
  /\ (heap0[TopAddr].items # <<>> /\ pc = "done") =>
       /\ stateMachine = props.stateMachineName
       /\ constructs[stateMachine].type = "StateMachine"
       /\ Cardinality(LogGroups) = 1
       /\ Occurrences(created, LogGroupId) = 1
       /\ \A id \in LogGroups :
            /\ constructs[id].logGroupName = LogGroupName(props.stateMachineName)
            /\ constructs[stateMachine].logs.destination = id

C7_Witness ==
  /\ pc = "done"
  /\ heap0[TopAddr].items = <<>>
  /\ props.errorHandler.present

\* the chainTasks calls on the array at address a logged from index from to
\* index to
CallsOn(a, from, to) ==
  SelectSeq(SubSeq(log, from, to),
            LAMBDA e : e.ev = "call" /\ e.fn = "chainTasks" /\ e.list = a)

\* the chainTasks frames on the stack that work on the array at address a
FramesOn(a) ==
  {k \in 1..Len(stack) : stack[k].fn = "chainTasks" /\ stack[k].lambdaFunctions = a}

\* C8: the recursion on an array given non-empty is never deeper than the
\* array was long; a recursive chainTasks call is entered with the array of
\* its caller less the head; when a chainTasks call made by the constructor or by
\* addChoice returns, the array is empty and there has been exactly one call
\* per element of the array, the k-th entered with the elements from k on.
C8_OneCallPerElement ==
  /\ \A a \in DOMAIN heap0 :
       heap0[a].items # <<>> => Cardinality(FramesOn(a)) <= Len(heap0[a].items)
  /\ \A j \in 1..Len(log) :
       (IsCall(j, "chainTasks") /\ log[j].by = "chainTasks") =>
         log[j].obj.items = Tail(log[log[j].parent].obj.items)
  /\ \A j \in 1..Len(log) :
       (IsReturn(j, "chainTasks") /\ log[j].by # "chainTasks") =>
         LET arg == ArgOf(j)
             calls == CallsOn(log[j].list, log[j].callIdx, j)
         IN /\ log[j].obj.items = <<>>
            /\ Len(calls) = Len(arg)
            /\ \A k \in 1..Len(calls) :
                 calls[k].obj.items = SubSeq(arg, k, Len(arg))

C8_Witness ==
  \E j \in 1..Len(log) :
    /\ IsReturn(j, "chainTasks")
    /\ log[j].by = "constructor"
    /\ AllTasks(ArgOf(j))
    /\ Len(ArgOf(j)) >= 3

\* every defaultFunctions is, as given, a non-empty array
NonEmptyBranchInput ==
  \A c \in ChoiceDescriptors :
    /\ heap0[c.defaultFunctions].kind = "Array"
    /\ heap0[c.defaultFunctions].items # <<>>

\* C9: (props.lambdaFunctions non-empty, every defaultFunctions given as a
\* non-empty array) every chainTasks call is entered with an array of at
\* least one element.
C9_NeverEnteredEmpty ==
  (heap0[TopAddr].items # <<>> /\ NonEmptyBranchInput) =>
    \A j \in 1..Len(log) :
      IsCall(j, "chainTasks") =>
        log[j].obj.kind = "Array" /\ log[j].obj.items # <<>>

\* C10: an addChoice call for a choice without task branches (no choices, or
\* 'endStates' in every entry) has, on return, created the Choice state and
\* nothing else, left defaultFunctions as it was, given the Choice one
\* when-branch per entry that goes to choice.defaultFunctions itself, and
\* returned the chain of the Choice; the calling chainTasks then calls
\* itself on the rest of its array with its own first flag, and returns the
\* Choice followed by the states of the rest in order.
C10_ChoiceWithoutTaskBranches ==
  \A j \in 1..Len(log) :
    (IsReturn(j, "addChoice") /\ NoTaskBranch(ChoiceOf(j))) =>
      LET c == log[log[j].callIdx]
          choice == ChoiceOf(j)
          p == c.parent
      IN /\ log[j].created = Append(c.created, choice.choiceName)
         /\ constructs[choice.choiceName].type = "Choice"
         /\ log[j].obj = c.obj
         /\ heap[choice.defaultFunctions] = heap0[choice.defaultFunctions]
         /\ constructs[choice.choiceName].whens =
              [k \in 1..Len(choice.choices) |->
                 [condition |-> choice.choices[k].condition,
                  next |-> StateAt(choice.defaultFunctions)]]
         /\ log[j].chain = <<choice.choiceName>>
         /\ \A q \in 1..Len(log) :
              (IsCall(q, "chainTasks") /\ log[q].by = "chainTasks"
                 /\ log[q].parent = p) =>
                /\ log[q].first = log[p].first
                /\ log[q].obj.items = Tail(log[p].obj.items)
         /\ \A q \in 1..Len(log) :
              (IsReturn(q, "chainTasks") /\ log[q].callIdx = p) =>
                log[q].chain = Ids(log[p].obj.items)

C10_Witness ==
  /\ pc = "done"
  /\ \E j \in 1..Len(log) :
       /\ IsReturn(j, "addChoice")
       /\ NoTaskBranch(ChoiceOf(j))
       /\ Len(ChoiceOf(j).choices) >= 2
       /\ \E q \in 1..Len(log) :
            /\ IsCall(q, "chainTasks")
            /\ log[q].by = "chainTasks"
            /\ log[q].parent = log[log[j].callIdx].parent
            /\ log[q].first

====
